---- MODULE Spec2Model ----
(***************************************************************************)
(* A model of the model-conversion scripts under                           *)
(* examples/YOLOv8-ONNXRuntime-Rust/scripts:                               *)
(*   convert_fastest_to_onnx.py          (script "fastest")                *)
(*   convert_fastest_darknet_to_onnx.py  (script "darknet")                *)
(*   quantize_onnx_int8.py               (script "quantize")               *)
(*   export_int8_models.py               (script "int8")                   *)
(*   export_osnet_official.py            (script "osnet")                  *)
(*                                                                         *)
(* Text is a sequence of one-character strings, so that str.strip,         *)
(* str.startswith, str.split, str.replace and slicing are computed on the  *)
(* characters.  A file is "absent", or a record of its content.  Calls     *)
(* into third-party libraries (torch, onnx, onnxruntime, ultralytics,      *)
(* torchreid, subprocess) are nondeterministic over their outcomes.        *)
(***************************************************************************)
EXTENDS Integers, Sequences, FiniteSets, TLC

VARIABLES
    script,   \* which script (or function under study) this run executes
    pc,       \* the position in that script
    fs,       \* the file system: path -> file state
    log,      \* the effects of the current command, in order
    ret,      \* the value the last function returned, or how the run ended
    loc       \* the local variables of the running function

vars == <<script, pc, fs, log, ret, loc>>

(***************************************************************************)
(* Bounds of the model.                                                    *)
(***************************************************************************)
MaxLines == 3      \* lines in a config file
MaxWords == 7      \* 32-bit words in a weights file
MaxBlocks == 2     \* blocks in a block list handed to build_model_from_cfg

(***************************************************************************)
(* Python str operations, on sequences of characters.                      *)
(***************************************************************************)
Whitespace == {" ", "\t", "\n"}

RECURSIVE LStrip(_)
LStrip(s) ==
    IF s # <<>> /\ Head(s) \in Whitespace THEN LStrip(Tail(s)) ELSE s

RECURSIVE RStrip(_)
RStrip(s) ==
    IF s # <<>> /\ s[Len(s)] \in Whitespace
    THEN RStrip(SubSeq(s, 1, Len(s) - 1))
    ELSE s

\* str.strip()
Strip(s) == RStrip(LStrip(s))

\* str.startswith(p)
StartsWith(s, p) == Len(s) >= Len(p) /\ SubSeq(s, 1, Len(p)) = p

\* str.endswith(p)
EndsWith(s, p) ==
    Len(s) >= Len(p) /\ SubSeq(s, Len(s) - Len(p) + 1, Len(s)) = p

\* s[1:-1]
Slice1m1(s) == SubSeq(s, 2, Len(s) - 1)

\* s.split(c) for a one-character separator: the parts between the separators
RECURSIVE SplitFrom(_, _, _, _)
SplitFrom(s, c, i, part) ==
    IF i > Len(s) THEN <<part>>
    ELSE IF s[i] = c THEN <<part>> \o SplitFrom(s, c, i + 1, <<>>)
    ELSE SplitFrom(s, c, i + 1, Append(part, s[i]))

Split(s, c) == SplitFrom(s, c, 1, <<>>)

(***************************************************************************)
(* Python dict: a function from keys to values.                            *)
(***************************************************************************)
EmptyDict == [k \in {} |-> <<>>]

DictSet(d, k, v) ==
    [x \in (DOMAIN d) \cup {k} |-> IF x = k THEN v ELSE d[x]]

\* dict.get(k, default)
DictGet(d, k, default) == IF k \in DOMAIN d THEN d[k] ELSE default

K_type == <<"t", "y", "p", "e">>
K_width == <<"w", "i", "d", "t", "h">>
K_filters == <<"f">>

(***************************************************************************)
(* YOLOFastestConverter.parse_cfg.  The result is the list of blocks, or   *)
(* raised = TRUE when the unpacking "key, value = line.split('=')" raises  *)
(* ValueError.                                                             *)
(***************************************************************************)
\* the same without the "if block:" test
AppendAlways(blocks, block) == Append(blocks, block)

AppendIfAny(blocks, block) ==
    IF DOMAIN block # {} THEN Append(blocks, block) ELSE blocks

RECURSIVE parse_lines(_, _, _, _)
parse_lines(lines, i, block, blocks) ==
    IF i > Len(lines)
    THEN [raised |-> FALSE, blocks |-> AppendIfAny(blocks, block)]
    ELSE LET line == Strip(lines[i]) IN
         IF line = <<>> \/ StartsWith(line, <<"#">>)
         THEN parse_lines(lines, i + 1, block, blocks)
         ELSE IF StartsWith(line, <<"[">>)
         THEN parse_lines(lines, i + 1,
                          DictSet(EmptyDict, K_type, Strip(Slice1m1(line))),
                          AppendIfAny(blocks, block))
         ELSE LET parts == Split(line, "=") IN
              IF Len(parts) # 2
              THEN [raised |-> TRUE, blocks |-> <<>>]
              ELSE parse_lines(lines, i + 1,
                               DictSet(block, Strip(parts[1]), Strip(parts[2])),
                               blocks)

parse_cfg(cfg_file) == parse_lines(cfg_file, 1, EmptyDict, <<>>)

(***************************************************************************)
(* The lines config files are made of: blank lines, comments, headers and  *)
(* key=value lines, with and without surrounding white space.              *)
(***************************************************************************)
CfgLines ==
    { <<>>,
      <<" ", "\n">>,
      <<"#", "c">>,
      <<" ", "#", "[", "a", "]">>,
      <<"[", "a", "]", "\n">>,
      <<" ", "[", " ", "b", " ", "]", " ">>,
      <<"w", "i", "d", "t", "h", "=", "4", "1", "6">>,
      <<" ", "w", "i", "d", "t", "h", " ", "=", " ", "3", "2", "\n">>,
      <<"k", "=", "1">>,
      <<"t", "y", "p", "e", "=", "z">>,
      <<"k", "=", "1", "=", "2">> }

RECURSIVE SeqsUpTo(_, _)
SeqsUpTo(S, n) ==
    IF n = 0 THEN {<<>>}
    ELSE LET shorter == SeqsUpTo(S, n - 1) IN
         shorter \cup {Append(q, x) : q \in {t \in shorter : Len(t) = n - 1}, x \in S}

CfgFiles == SeqsUpTo(CfgLines, MaxLines)

(***************************************************************************)
(* The specification of parse_cfg alone: any config file, then the call.   *)
(***************************************************************************)
InitParseCfg ==
    /\ script = "parse_cfg"
    /\ pc = "call"
    /\ fs = EmptyDict
    /\ log = <<>>
    /\ ret = "none"
    /\ \E f \in CfgFiles : loc = [cfg_file |-> f, raised |-> FALSE, blocks |-> <<>>]

CallParseCfg ==
    /\ script = "parse_cfg"
    /\ pc = "call"
    /\ LET r == parse_cfg(loc.cfg_file) IN
         /\ loc' = [loc EXCEPT !.raised = r.raised, !.blocks = r.blocks]
         /\ ret' = IF r.raised THEN "raised" ELSE "returned"
    /\ pc' = "done"
    /\ UNCHANGED <<script, fs, log>>

NextParseCfg == CallParseCfg

SpecParseCfg == InitParseCfg /\ [][NextParseCfg]_vars

(***************************************************************************)
(* YOLOFastestConverter.load_weights.  A weights file is its sequence of   *)
(* 32-bit words; numpy.fromfile(f, count=5) takes the words that are       *)
(* there, up to five, and the second numpy.fromfile takes the rest.        *)
(***************************************************************************)
HeaderCount == 5

Min(a, b) == IF a <= b THEN a ELSE b

\* numpy.fromfile(f, count=n) at position pos: the items read and the new position
FromFile(words, pos, count) ==
    LET n == Min(count, Len(words) - pos) IN
    [items |-> SubSeq(words, pos + 1, pos + n), pos |-> pos + n]

\* numpy.fromfile(f) at position pos: every item that is left
FromFileRest(words, pos) == SubSeq(words, pos + 1, Len(words))

\* the same reading a four-word header
load_weights_short_header(weights_file) ==
    FromFileRest(weights_file, FromFile(weights_file, 0, HeaderCount - 1).pos)

load_weights(weights_file) ==
    LET header == FromFile(weights_file, 0, HeaderCount) IN
    FromFileRest(weights_file, header.pos)

Words == {0, 1, 2}
WeightsFiles == SeqsUpTo(Words, MaxWords)

InitLoadWeights ==
    /\ script = "load_weights"
    /\ pc = "call"
    /\ fs = EmptyDict
    /\ log = <<>>
    /\ ret = "none"
    /\ \E f \in WeightsFiles : loc = [weights_file |-> f, weights |-> <<>>]

CallLoadWeights ==
    /\ script = "load_weights"
    /\ pc = "call"
    /\ loc' = [loc EXCEPT !.weights = load_weights(loc.weights_file)]
    /\ ret' = "returned"
    /\ pc' = "done"
    /\ UNCHANGED <<script, fs, log>>

NextLoadWeights == CallLoadWeights

SpecLoadWeights == InitLoadWeights /\ [][NextLoadWeights]_vars

(***************************************************************************)
(* int(str): optional sign and decimal digits, white space stripped;       *)
(* anything else raises ValueError.                                        *)
(***************************************************************************)
Digits == {"0", "1", "2", "3", "4", "5", "6", "7", "8", "9"}

DigitValue(c) ==
    CASE c = "0" -> 0 [] c = "1" -> 1 [] c = "2" -> 2 [] c = "3" -> 3
      [] c = "4" -> 4 [] c = "5" -> 5 [] c = "6" -> 6 [] c = "7" -> 7
      [] c = "8" -> 8 [] c = "9" -> 9

RECURSIVE DecimalValue(_)
DecimalValue(s) ==
    IF s = <<>> THEN 0
    ELSE 10 * DecimalValue(SubSeq(s, 1, Len(s) - 1)) + DigitValue(s[Len(s)])

ParseInt(text) ==
    LET s == Strip(text)
        signed == s # <<>> /\ s[1] \in {"+", "-"}
        digits == IF signed THEN Tail(s) ELSE s
    IN  IF digits = <<>> \/ \E i \in 1..Len(digits) : digits[i] \notin Digits
        THEN [raised |-> TRUE, value |-> 0]
        ELSE [raised |-> FALSE,
              value |-> IF signed /\ s[1] = "-"
                        THEN 0 - DecimalValue(digits) ELSE DecimalValue(digits)]

(***************************************************************************)
(* SimplifiedYOLOFastest and YOLOFastestConverter.build_model_from_cfg.    *)
(***************************************************************************)
Layer(name, args) == [layer |-> name, args |-> args]

SimplifiedYOLOFastest(input_size) ==
    [input_size |-> input_size,
     backbone |-> << Layer("Conv2d", <<3, 64, 3, 1>>),
                     Layer("BatchNorm2d", <<64>>),
                     Layer("ReLU", <<>>),
                     Layer("MaxPool2d", <<2, 2>>) >>,
     head |-> Layer("Conv2d", <<64, 255, 1, 0>>)]

NoModel == [input_size |-> 0, backbone |-> <<>>, head |-> Layer("none", <<>>)]

DefaultWidth == 320

\* net_info.get('width', 320), then int(...)
InputSizeOf(net_info) ==
    IF K_width \in DOMAIN net_info
    THEN ParseInt(net_info[K_width])
    ELSE [raised |-> FALSE, value |-> DefaultWidth]

\* the same taking the input size from the last block
build_model_from_last_block(blocks) ==
    IF blocks = <<>> THEN [raised |-> TRUE, model |-> NoModel]
    ELSE LET input_size == InputSizeOf(blocks[Len(blocks)]) IN
         IF input_size.raised THEN [raised |-> TRUE, model |-> NoModel]
         ELSE [raised |-> FALSE, model |-> SimplifiedYOLOFastest(input_size.value)]

\* blocks[0] raises IndexError on an empty list, int() ValueError on a bad width
build_model_from_cfg(blocks) ==
    IF blocks = <<>> THEN [raised |-> TRUE, model |-> NoModel]
    ELSE LET net_info == blocks[1]
             input_size == InputSizeOf(net_info)
         IN  IF input_size.raised THEN [raised |-> TRUE, model |-> NoModel]
             ELSE [raised |-> FALSE, model |-> SimplifiedYOLOFastest(input_size.value)]

ExportInputSize == 320

\* convert, from the parsed blocks and loaded weights to the arguments of
\* torch.onnx.export: the model built and the shape of dummy_input
export_arguments(blocks, weights) ==
    LET built == build_model_from_cfg(blocks) IN
    IF built.raised
    THEN [raised |-> TRUE, model |-> NoModel, dummy_input |-> <<>>]
    ELSE [raised |-> FALSE, model |-> built.model,
          dummy_input |-> <<1, 3, ExportInputSize, ExportInputSize>>]

(***************************************************************************)
(* The specification of the build and export step alone: any block list    *)
(* and weights, the call, and then any change of the input that leaves the *)
(* first block's 'width' as it is, followed by another call.               *)
(***************************************************************************)
BlockKeys == {K_width, K_filters}
BlockValues == {<<"4", "1", "6">>, <<"x">>}

Dicts(keys, values) ==
    UNION {[d -> values] : d \in SUBSET keys}

BlockDicts == Dicts(BlockKeys, BlockValues)
BlockLists == SeqsUpTo(BlockDicts, MaxBlocks)
WeightSamples == {<<>>, <<1, 2>>}

NoOutcome == [raised |-> FALSE, model |-> NoModel, dummy_input |-> <<>>]

InitBuild ==
    /\ script = "build"
    /\ pc = "call"
    /\ fs = EmptyDict
    /\ log = <<>>
    /\ ret = "none"
    /\ \E b \in BlockLists, w \in WeightSamples :
         loc = [blocks |-> b, weights |-> w, out |-> NoOutcome,
                has_prev |-> FALSE, prev_out |-> NoOutcome]

CallBuild ==
    /\ script = "build"
    /\ pc = "call"
    /\ loc' = [loc EXCEPT !.out = export_arguments(loc.blocks, loc.weights)]
    /\ ret' = IF loc'.out.raised THEN "raised" ELSE "returned"
    /\ pc' = "done"
    /\ UNCHANGED <<script, fs, log>>

\* run again with these inputs, keeping the outcome of the run before
Rerun(blocks, weights) ==
    /\ script = "build"
    /\ pc = "done"
    /\ loc.blocks # <<>>
    /\ loc' = [blocks |-> blocks, weights |-> weights, out |-> NoOutcome,
               has_prev |-> TRUE, prev_out |-> loc.out]
    /\ ret' = "none"
    /\ pc' = "call"
    /\ UNCHANGED <<script, fs, log>>

VaryWeights ==
    \E w \in WeightSamples \ {loc.weights} : Rerun(loc.blocks, w)

\* replace, add or drop a block that is not the first
VaryOtherBlock ==
    \/ \E i \in 2..Len(loc.blocks) :
         \E d \in BlockDicts \ {loc.blocks[i]} :
            Rerun([loc.blocks EXCEPT ![i] = d], loc.weights)
    \/ \E d \in BlockDicts :
         /\ Len(loc.blocks) < MaxBlocks
         /\ Rerun(Append(loc.blocks, d), loc.weights)
    \/ /\ Len(loc.blocks) >= 2
       /\ Rerun(SubSeq(loc.blocks, 1, Len(loc.blocks) - 1), loc.weights)

\* set or delete a field of the first block that is not 'width'
VaryOtherField ==
    /\ loc.blocks # <<>>
    /\ \E k \in BlockKeys \ {K_width} :
       \/ \E v \in BlockValues \ {DictGet(loc.blocks[1], k, <<>>)} :
            Rerun([loc.blocks EXCEPT ![1] = DictSet(loc.blocks[1], k, v)], loc.weights)
       \/ /\ k \in DOMAIN loc.blocks[1]
          /\ Rerun([loc.blocks EXCEPT
                      ![1] = [x \in (DOMAIN loc.blocks[1]) \ {k} |-> loc.blocks[1][x]]],
                   loc.weights)

NextBuild == CallBuild \/ VaryWeights \/ VaryOtherBlock \/ VaryOtherField

SpecBuild == InitBuild /\ [][NextBuild]_vars

(***************************************************************************)
(* Files, effects and console input shared by the five scripts.            *)
(* A file's size is 0 or 1, 1 standing for any non-zero size.              *)
(***************************************************************************)
Absent == [exists |-> FALSE, size |-> 0, data |-> <<>>]
File(size, data) == [exists |-> TRUE, size |-> size, data |-> data]

\* one effect: the operation, the path or text it is about, whether it succeeded
Ev(op, arg, ok) == [op |-> op, arg |-> arg, ok |-> ok]

Exists(files, path) == Ev("exists", path, files[path].exists)
Read(path) == Ev("read", path, TRUE)
Write(path) == Ev("write", path, TRUE)
\* a library call and how it ended: "ok" or the exception it raised
Call(name, outcome) == Ev("call", <<name, outcome>>, outcome = "ok")
PrintError(text) == Ev("print_error", <<text>>, TRUE)
PrintException(text) == Ev("print_exception", <<text>>, TRUE)

\* str.lower(), on the letters the answers are made of
LowerChar(c) == IF c = "Y" THEN "y" ELSE IF c = "N" THEN "n" ELSE c
Lower(s) == [i \in 1..Len(s) |-> LowerChar(s[i])]

\* what input() may return
Responses == { <<"y">>, <<" ", "Y", " ">>, <<"n">>, <<>>, <<"y", "e", "s">> }
Choices == { <<"0">>, <<"1">>, <<"2">>, <<"3">>, <<"4">>, <<"5">>,
             <<" ", "1", " ">>, <<>>, <<"1", "2">> }

(***************************************************************************)
(* convert_fastest_to_onnx.py                                              *)
(***************************************************************************)
\* self.models: keys in insertion order, and each model's name
ModelKeys == << <<"1">>, <<"2">>, <<"3">> >>
ModelName(key) ==
    CASE key = <<"1">> -> "YOLO-Fastest-1.1"
      [] key = <<"2">> -> "YOLO-Fastest-XL"
      [] key = <<"3">> -> "YOLO-Fastest-1.1-Body"

IsModelKey(key) == \E i \in 1..Len(ModelKeys) : ModelKeys[i] = key

CfgPath(key) == <<"cfg">> \o key
WeightsPath(key) == <<"weights">> \o key
OutputPath(key) == <<"output">> \o key

\* what torch.onnx.export, onnx.load and onnx.checker.check_model may do:
\* export raises, writes a model, writes an empty file or writes nothing
\* (a call that is not reached has the outcome "ok")
FastestLib ==
    {lib \in [export : {"raise", "data", "empty", "none"},
              load : {"ok", "raise"},
              check : {"ok", "raise"}] :
        /\ lib.export = "raise" => lib.load = "ok"
        /\ lib.load = "raise" => lib.check = "ok"}

Outcome(files, events, result) == [fs |-> files, log |-> events, ret |-> result]

\* the same with no handler: the exception leaves convert
convert_no_except(files, events) == Outcome(files, events, "uncaught")

\* except Exception as e: print, traceback.print_exc(), return False
convert_except(files, events) ==
    Outcome(files,
            events \o <<PrintException("Conversion failed"), PrintException("traceback")>>,
            "False")

\* the same going on to check_model after onnx.load has raised
convert_verify_past_load(files, output_path, lib, events) ==
    LET e1 == events \o <<Ev("read", output_path, files[output_path].exists),
                          Call("onnx.load", IF ~files[output_path].exists \/ lib.load = "raise"
                                            THEN "Exception" ELSE "ok")>>
    IN  IF lib.check = "raise"
        THEN convert_except(files, Append(e1, Call("onnx.checker.check_model", "Exception")))
        ELSE Outcome(files,
                     e1 \o <<Call("onnx.checker.check_model", "ok"),
                             Ev("print", <<"Successfully converted">>, TRUE)>>,
                     "True")

\* the try block from the verification of the exported file on
convert_verify(files, output_path, lib, events) ==
    LET e1 == Append(events, Ev("read", output_path, files[output_path].exists)) IN
    IF ~files[output_path].exists \/ lib.load = "raise"
    THEN convert_except(files, Append(e1, Call("onnx.load", "Exception")))
    ELSE LET e2 == Append(e1, Call("onnx.load", "ok")) IN
         IF lib.check = "raise"
         THEN convert_except(files, Append(e2, Call("onnx.checker.check_model", "Exception")))
         ELSE Outcome(files,
                      e2 \o <<Call("onnx.checker.check_model", "ok"),
                              Ev("print", <<"Successfully converted">>, TRUE),
                              Read(output_path)>>,
                      "True")

\* the try block: parse, load, build, export, verify
convert_try(files, model_key, lib, events) ==
    LET cfg_path == CfgPath(model_key)
        weights_path == WeightsPath(model_key)
        output_path == OutputPath(model_key)
        parsed == parse_cfg(files[cfg_path].data)
        e1 == Append(events, Ev("parse_cfg", cfg_path, ~parsed.raised))
    IN
    IF parsed.raised THEN convert_except(files, e1)
    ELSE
    LET weights == load_weights(files[weights_path].data)
        e2 == Append(e1, Ev("load_weights", weights_path, TRUE))
        args == export_arguments(parsed.blocks, weights)
        e3 == Append(e2, Ev("build_model_from_cfg", <<>>, ~args.raised))
    IN
    IF args.raised THEN convert_except(files, e3)
    ELSE IF lib.export = "raise"
    THEN convert_except(files, Append(e3, Call("torch.onnx.export", "Exception")))
    ELSE
    LET written == IF lib.export = "none" THEN files
                   ELSE [files EXCEPT ![output_path] =
                           File(IF lib.export = "data" THEN 1 ELSE 0,
                                <<[model |-> args.model, input |-> args.dummy_input]>>)]
        e4 == Append(e3, Call("torch.onnx.export", "ok"))
                \o (IF lib.export = "none" THEN <<>> ELSE <<Write(output_path)>>)
    IN  convert_verify(written, output_path, lib, e4)

\* the same going on to the conversion although the weights file is missing
convert_unchecked_weights(files, model_key, lib) ==
    IF ~IsModelKey(model_key)
    THEN Outcome(files, <<PrintError("Invalid model key")>>, "False")
    ELSE
    LET e1 == <<Ev("print", <<"Converting">>, TRUE), Exists(files, CfgPath(model_key))>> IN
    IF ~files[CfgPath(model_key)].exists
    THEN Outcome(files, Append(e1, PrintError("Config file not found")), "False")
    ELSE convert_try(files, model_key, lib,
                     e1 \o <<Exists(files, WeightsPath(model_key))>>)

\* YOLOFastestConverter.convert
convert(files, model_key, lib) ==
    IF ~IsModelKey(model_key)
    THEN Outcome(files, <<PrintError("Invalid model key")>>, "False")
    ELSE
    LET cfg_path == CfgPath(model_key)
        weights_path == WeightsPath(model_key)
        e1 == <<Ev("print", <<"Converting">>, TRUE), Exists(files, cfg_path)>>
    IN
    IF ~files[cfg_path].exists
    THEN Outcome(files, Append(e1, PrintError("Config file not found")), "False")
    ELSE
    LET e2 == Append(e1, Exists(files, weights_path)) IN
    IF ~files[weights_path].exists
    THEN Outcome(files, Append(e2, PrintError("Weights file not found")), "False")
    ELSE convert_try(files, model_key, lib, Append(e2, Read(weights_path)))

\* the files of the three models before the script runs: each config is
\* missing, well-formed or empty, each weights file missing or there, and no
\* output has been written
GoodCfg == << <<"[", "n", "e", "t", "]", "\n">>,
              <<"w", "i", "d", "t", "h", "=", "4", "1", "6", "\n">> >>
EmptyCfg == <<>>
SampleWeights == <<0, 2, 5, 0, 0, 1, 2>>

FastestPaths ==
    {CfgPath(ModelKeys[i]) : i \in 1..3} \cup {WeightsPath(ModelKeys[i]) : i \in 1..3}
        \cup {OutputPath(ModelKeys[i]) : i \in 1..3}

FastestFileStates(path) ==
    IF path[1] = "cfg" THEN {Absent, File(1, GoodCfg), File(0, EmptyCfg)}
    ELSE IF path[1] = "weights" THEN {Absent, File(1, SampleWeights)}
    ELSE {Absent}

FastestLocals ==
    [command |-> "none", choice |-> <<>>, i |-> 0, results |-> EmptyDict,
     \* history: the keys convert was called with, and what each call returned
     calls |-> <<>>, returned |-> <<>>]

InitFastest ==
    /\ script = "fastest"
    /\ pc = "confirm"
    /\ \E cfgs \in [1..3 -> FastestFileStates(<<"cfg">>)],
          weights \in [1..3 -> FastestFileStates(<<"weights">>)] :
         fs = [path \in FastestPaths |->
                 LET i == CHOOSE j \in 1..3 : ModelKeys[j] = Tail(path) IN
                 IF path[1] = "cfg" THEN cfgs[i]
                 ELSE IF path[1] = "weights" THEN weights[i]
                 ELSE Absent]
    /\ log = <<>>
    /\ ret = "none"
    /\ loc = FastestLocals

\* response = input(...).strip().lower(); if response != 'y': return
FastestDecline ==
    /\ script = "fastest"
    /\ pc = "confirm"
    /\ \E response \in Responses :
         /\ Lower(Strip(response)) # <<"y">>
         /\ log' = <<Ev("input", response, TRUE), Ev("print", <<"Recommended">>, TRUE)>>
    /\ pc' = "exit"
    /\ ret' = "None"
    /\ UNCHANGED <<script, fs, loc>>

\* the same taking any answer for a confirmation
FastestConfirmAny ==
    /\ script = "fastest"
    /\ pc = "confirm"
    /\ \E response \in Responses :
         log' = <<Ev("input", response, TRUE)>>
    /\ pc' = "menu"
    /\ UNCHANGED <<script, fs, ret, loc>>

FastestConfirm ==
    /\ script = "fastest"
    /\ pc = "confirm"
    /\ \E response \in Responses :
         /\ Lower(Strip(response)) = <<"y">>
         /\ log' = <<Ev("input", response, TRUE)>>
    /\ pc' = "menu"
    /\ UNCHANGED <<script, fs, ret, loc>>

\* input() at the end of standard input: EOFError, which nothing catches
FastestEndOfInput ==
    /\ script = "fastest"
    /\ pc \in {"confirm", "menu"}
    /\ log' = (IF pc = "menu" THEN <<Ev("show_menu", <<>>, TRUE)>> ELSE <<>>)
                \o <<Ev("input", <<>>, FALSE)>>
    /\ loc' = [FastestLocals EXCEPT !.command = "EOFError"]
    /\ pc' = "exit"
    /\ ret' = "uncaught"
    /\ UNCHANGED <<script, fs>>

\* show_menu(); choice = input(...).strip(); if choice == '0': break
FastestChooseExit ==
    /\ script = "fastest"
    /\ pc = "menu"
    /\ \E choice \in Choices :
         /\ Strip(choice) = <<"0">>
         /\ log' = <<Ev("show_menu", <<>>, TRUE), Ev("input", choice, TRUE)>>
         /\ loc' = [FastestLocals EXCEPT !.command = "exit", !.choice = Strip(choice)]
    /\ pc' = "exit"
    /\ ret' = "None"
    /\ UNCHANGED <<script, fs>>

\* elif choice == '4': converter.convert_all()  -- up to the loop
FastestChooseAll ==
    /\ script = "fastest"
    /\ pc = "menu"
    /\ \E choice \in Choices :
         /\ Strip(choice) = <<"4">>
         /\ log' = <<Ev("show_menu", <<>>, TRUE), Ev("input", choice, TRUE)>>
         /\ loc' = [FastestLocals EXCEPT
                      !.command = "convert_all", !.choice = Strip(choice), !.i = 1]
    /\ pc' = "convert_all"
    /\ ret' = "none"
    /\ UNCHANGED <<script, fs>>

\* elif choice in ['1', '2', '3']: converter.convert(choice)  -- up to the call
FastestChooseOne ==
    /\ script = "fastest"
    /\ pc = "menu"
    /\ \E choice \in Choices :
         /\ Strip(choice) \in {<<"1">>, <<"2">>, <<"3">>}
         /\ log' = <<Ev("show_menu", <<>>, TRUE), Ev("input", choice, TRUE)>>
         /\ loc' = [FastestLocals EXCEPT !.command = "convert", !.choice = Strip(choice)]
    /\ pc' = "convert"
    /\ ret' = "none"
    /\ UNCHANGED <<script, fs>>

\* converter.convert(choice), back to the menu
ConvertCall ==
    /\ script = "fastest"
    /\ pc = "convert"
    /\ \E lib \in FastestLib :
         LET done == convert(fs, loc.choice, lib) IN
         /\ fs' = done.fs
         /\ log' = done.log
         /\ ret' = done.ret
         /\ loc' = [loc EXCEPT !.calls = <<loc.choice>>, !.returned = <<done.ret>>]
    /\ pc' = "menu"
    /\ UNCHANGED script

\* else: print("Invalid choice. Please select 0-4.")
FastestChooseInvalid ==
    /\ script = "fastest"
    /\ pc = "menu"
    /\ \E choice \in Choices :
         /\ Strip(choice) \notin {<<"0">>, <<"1">>, <<"2">>, <<"3">>, <<"4">>}
         /\ log' = <<Ev("show_menu", <<>>, TRUE), Ev("input", choice, TRUE),
                     PrintError("Invalid choice")>>
         /\ loc' = [FastestLocals EXCEPT !.command = "invalid", !.choice = Strip(choice)]
    /\ pc' = "menu"
    /\ ret' = "none"
    /\ UNCHANGED <<script, fs>>

\* convert_all: one turn of "for key in self.models.keys()"
ConvertAllNext ==
    /\ script = "fastest"
    /\ pc = "convert_all"
    /\ loc.i <= Len(ModelKeys)
    /\ \E lib \in FastestLib :
         LET key == ModelKeys[loc.i]
             done == convert(fs, key, lib)
         IN  /\ fs' = done.fs
             /\ log' = done.log
             /\ loc' = [loc EXCEPT
                          !.i = loc.i + 1,
                          !.calls = Append(loc.calls, key),
                          !.returned = Append(loc.returned, done.ret),
                          !.results = DictSet(loc.results, ModelName(key), done.ret = "True")]
             /\ ret' = done.ret
    /\ UNCHANGED <<script, pc>>

\* all(results.values())
AllTrue(results) == \A name \in DOMAIN results : results[name]

\* the same stopping at the first model that fails
ConvertAllStopOnFailure ==
    /\ script = "fastest"
    /\ pc = "convert_all"
    /\ loc.i > Len(ModelKeys) \/ ~AllTrue(loc.results)
    /\ log' = <<Ev("print", <<"Conversion Summary">>, TRUE)>>
    /\ ret' = IF AllTrue(loc.results) THEN "True" ELSE "False"
    /\ pc' = "menu"
    /\ UNCHANGED <<script, fs, loc>>

\* convert_all: the summary and the result, back to the menu
ConvertAllReturn ==
    /\ script = "fastest"
    /\ pc = "convert_all"
    /\ loc.i > Len(ModelKeys)
    /\ log' = <<Ev("print", <<"Conversion Summary">>, TRUE)>>
    /\ ret' = IF AllTrue(loc.results) THEN "True" ELSE "False"
    /\ pc' = "menu"
    /\ UNCHANGED <<script, fs, loc>>

NextFastest ==
    \/ FastestEndOfInput
    \/ FastestDecline
    \/ FastestConfirm
    \/ FastestChooseExit
    \/ FastestChooseAll
    \/ FastestChooseOne
    \/ ConvertCall
    \/ FastestChooseInvalid
    \/ ConvertAllNext
    \/ ConvertAllReturn

(***************************************************************************)
(* convert_fastest_darknet_to_onnx.py                                      *)
(***************************************************************************)
\* models of convert_yolo_fastest
DarknetKeys == << <<"1">>, <<"2">> >>
IsDarknetKey(key) == \E i \in 1..Len(DarknetKeys) : DarknetKeys[i] = key

RepoPath == <<"tensorrt_inference">>
ScriptPath == <<"tensorrt_inference", "project", "Yolov4", "export_onnx.py">>

DarknetPaths ==
    {CfgPath(DarknetKeys[i]) : i \in 1..2} \cup {WeightsPath(DarknetKeys[i]) : i \in 1..2}
        \cup {OutputPath(DarknetKeys[i]) : i \in 1..2} \cup {RepoPath, ScriptPath}

DarknetLocals == [auto |-> FALSE, choice |-> <<>>]

\* the model files are there or not; the conversion tool is not cloned,
\* cloned, or cloned without its export script
InitDarknet ==
    /\ script = "darknet"
    /\ pc = "main"
    /\ \E present \in [{"cfg", "weights"} \X {1, 2} -> BOOLEAN],
          tool \in {"none", "repo", "repo_and_script"} :
         fs = [path \in DarknetPaths |->
                 IF path = RepoPath
                 THEN (IF tool = "none" THEN Absent ELSE File(1, <<>>))
                 ELSE IF path = ScriptPath
                 THEN (IF tool = "repo_and_script" THEN File(1, <<>>) ELSE Absent)
                 ELSE IF path[1] = "output" THEN Absent
                 ELSE LET i == CHOOSE j \in 1..2 : DarknetKeys[j] = Tail(path) IN
                      IF present[<<path[1], i>>] THEN File(1, <<>>) ELSE Absent]
    /\ log = <<>>
    /\ ret = "none"
    /\ \E auto \in BOOLEAN : loc = [DarknetLocals EXCEPT !.auto = auto]

\* main, "if args.auto:": a message and "pass"
DarknetMainAuto ==
    /\ script = "darknet"
    /\ pc = "main"
    /\ loc.auto
    /\ log' = <<Ev("print", <<"Auto mode: Converting all models...">>, TRUE)>>
    /\ pc' = "exit"
    /\ ret' = "None"
    /\ UNCHANGED <<script, fs, loc>>

\* main, "else: convert_yolo_fastest()" up to the prompt
DarknetMainInteractive ==
    /\ script = "darknet"
    /\ pc = "main"
    /\ ~loc.auto
    /\ log' = <<Ev("print", <<"Available models">>, TRUE)>>
    /\ pc' = "prompt"
    /\ UNCHANGED <<script, fs, ret, loc>>

\* choice = input(...).strip(); "0" and an invalid choice return
DarknetChooseExit ==
    /\ script = "darknet"
    /\ pc = "prompt"
    /\ \E choice \in Choices :
         /\ Strip(choice) = <<"0">>
         /\ log' = <<Ev("input", choice, TRUE)>>
         /\ loc' = [loc EXCEPT !.choice = Strip(choice)]
    /\ pc' = "exit"
    /\ ret' = "None"
    /\ UNCHANGED <<script, fs>>

\* input() at the end of standard input: EOFError, which nothing catches
DarknetEndOfInput ==
    /\ script = "darknet"
    /\ pc = "prompt"
    /\ log' = <<Ev("input", <<>>, FALSE)>>
    /\ pc' = "exit"
    /\ ret' = "uncaught"
    /\ UNCHANGED <<script, fs, loc>>

DarknetChooseInvalid ==
    /\ script = "darknet"
    /\ pc = "prompt"
    /\ \E choice \in Choices :
         /\ Strip(choice) # <<"0">>
         /\ ~IsDarknetKey(Strip(choice))
         /\ log' = <<Ev("input", choice, TRUE), PrintError("Invalid choice")>>
         /\ loc' = [loc EXCEPT !.choice = Strip(choice)]
    /\ pc' = "exit"
    /\ ret' = "None"
    /\ UNCHANGED <<script, fs>>

DarknetChooseModel ==
    /\ script = "darknet"
    /\ pc = "prompt"
    /\ \E choice \in Choices :
         /\ IsDarknetKey(Strip(choice))
         /\ log' = <<Ev("input", choice, TRUE)>>
         /\ loc' = [loc EXCEPT !.choice = Strip(choice)]
    /\ pc' = "check"
    /\ UNCHANGED <<script, fs, ret>>

\* "Check if files exist": the config, then the weights
DarknetCheckFiles ==
    /\ script = "darknet"
    /\ pc = "check"
    /\ LET cfg_path == CfgPath(loc.choice)
           weights_path == WeightsPath(loc.choice)
           e1 == Append(log, Exists(fs, cfg_path))
       IN  IF ~fs[cfg_path].exists
           THEN /\ log' = Append(e1, PrintError("Config file not found"))
                /\ pc' = "exit"
                /\ ret' = "None"
           ELSE IF ~fs[weights_path].exists
           THEN /\ log' = e1 \o <<Exists(fs, weights_path),
                                  PrintError("Weights file not found")>>
                /\ pc' = "exit"
                /\ ret' = "None"
           ELSE /\ log' = Append(e1, Exists(fs, weights_path))
                /\ pc' = "tool"
                /\ ret' = ret
    /\ UNCHANGED <<script, fs, loc>>

\* what "git clone" may do: succeed (the repository has the export script or
\* not), exit non-zero (CalledProcessError), or fail to start (OSError)
CloneOutcomes == {"cloned", "cloned_without_script", "CalledProcessError", "OSError"}

\* download_conversion_tool(), then "if not script_path.exists(): return"
DarknetTool ==
    /\ script = "darknet"
    /\ pc = "tool"
    /\ \E clone \in CloneOutcomes :
         LET e1 == Append(log, Exists(fs, RepoPath)) IN
         IF fs[RepoPath].exists
         THEN /\ fs' = fs
              /\ IF fs[ScriptPath].exists
                 THEN /\ log' = Append(e1, Exists(fs, ScriptPath))
                      /\ pc' = "run"
                      /\ ret' = ret
                 ELSE /\ log' = e1 \o <<Exists(fs, ScriptPath),
                                        PrintError("Conversion script not found")>>
                      /\ pc' = "exit"
                      /\ ret' = "None"
         ELSE IF clone = "CalledProcessError"
         THEN /\ fs' = fs
              /\ log' = e1 \o <<Call("git clone", "CalledProcessError"),
                                PrintException("Failed to clone repo")>>
              /\ pc' = "exit"
              /\ ret' = "exit 1"
         ELSE IF clone = "OSError"
         THEN /\ fs' = fs
              /\ log' = Append(e1, Call("git clone", "OSError"))
              /\ pc' = "exit"
              /\ ret' = "uncaught"
         ELSE LET cloned == [fs EXCEPT
                               ![RepoPath] = File(1, <<>>),
                               ![ScriptPath] = IF clone = "cloned"
                                               THEN File(1, <<>>) ELSE Absent]
                  e2 == e1 \o <<Call("git clone", "ok"), Write(RepoPath)>>
              IN  /\ fs' = cloned
                  /\ IF cloned[ScriptPath].exists
                     THEN /\ log' = Append(e2, Exists(cloned, ScriptPath))
                          /\ pc' = "run"
                          /\ ret' = ret
                     ELSE /\ log' = e2 \o <<Exists(cloned, ScriptPath),
                                            PrintError("Conversion script not found")>>
                          /\ pc' = "exit"
                          /\ ret' = "None"
    /\ UNCHANGED <<script, loc>>

\* what the export script run by subprocess.run may do: succeed (writing a
\* model, an empty file or nothing), exit non-zero, or fail to start
RunOutcomes == {"data", "empty", "none", "CalledProcessError", "OSError"}

\* try: subprocess.run(cmd, check=True) ... except subprocess.CalledProcessError
DarknetRun ==
    /\ script = "darknet"
    /\ pc = "run"
    /\ \E run \in RunOutcomes :
         LET output_path == OutputPath(loc.choice)
             \* the export script is handed the config and the weights
             started == log \o <<Read(CfgPath(loc.choice)), Read(WeightsPath(loc.choice))>>
         IN
         IF run = "CalledProcessError"
         THEN /\ fs' = fs
              /\ log' = started \o <<Call("python export_onnx.py", "CalledProcessError"),
                                     PrintException("Conversion failed")>>
              /\ ret' = "None"
         ELSE IF run = "OSError"
         THEN /\ fs' = fs
              /\ log' = Append(log, Call("python export_onnx.py", "OSError"))
              /\ ret' = "uncaught"
         ELSE LET written == IF run = "none" THEN fs
                             ELSE [fs EXCEPT ![output_path] =
                                     File(IF run = "data" THEN 1 ELSE 0, <<>>)]
              IN  /\ fs' = written
                  /\ log' = started \o <<Call("python export_onnx.py", "ok")>>
                              \o (IF run = "none" THEN <<>> ELSE <<Write(output_path)>>)
                              \o <<Ev("print", <<"Successfully converted!">>, TRUE),
                                   Exists(written, output_path)>>
                  /\ ret' = "None"
    /\ pc' = "exit"
    /\ UNCHANGED <<script, loc>>

NextDarknet ==
    \/ DarknetEndOfInput
    \/ DarknetMainAuto
    \/ DarknetMainInteractive
    \/ DarknetChooseExit
    \/ DarknetChooseInvalid
    \/ DarknetChooseModel
    \/ DarknetCheckFiles
    \/ DarknetTool
    \/ DarknetRun

(***************************************************************************)
(* More Python str operations: "in", replace, +.                           *)
(***************************************************************************)
\* pat in s
Contains(s, pat) ==
    \E i \in 1..(Len(s) - Len(pat) + 1) : SubSeq(s, i, i + Len(pat) - 1) = pat

\* s.replace(old, new): every occurrence, left to right
RECURSIVE Replace(_, _, _)
Replace(s, old, new) ==
    IF Len(s) < Len(old) \/ old = <<>> THEN s
    ELSE IF SubSeq(s, 1, Len(old)) = old
    THEN new \o Replace(SubSeq(s, Len(old) + 1, Len(s)), old, new)
    ELSE <<s[1]>> \o Replace(Tail(s), old, new)

DotOnnx == <<".", "o", "n", "n", "x">>
DotPt == <<".", "p", "t">>
Int8 == <<"_", "i", "n", "t", "8">>
Int8DotOnnx == <<"_", "i", "n", "t", "8", ".", "o", "n", "n", "x">>

\* os.path.join(directory, name)
Join(directory, name) == directory \o <<"/">> \o name

(***************************************************************************)
(* quantize_onnx_int8.py                                                   *)
(***************************************************************************)
ModelsDir == <<"m", "o", "d", "e", "l", "s">>

\* the names the models/ directory may hold before the run
FileNames == { <<"m", ".", "o", "n", "n", "x">>,
               <<"m", ".", "o", "n", "n", "x", ".", "o", "n", "n", "x">>,
               <<"m", "_", "i", "n", "t", "8", ".", "o", "n", "n", "x">>,
               <<"n", ".", "p", "t">> }

\* f"{base_name}_int8.onnx" with base_name = model_name.replace('.onnx', '')
OutputName(model_name) == Replace(model_name, DotOnnx, <<>>) \o Int8DotOnnx

QuantizePaths ==
    {ModelsDir} \cup {Join(ModelsDir, n) : n \in FileNames}
        \cup {Join(ModelsDir, OutputName(n)) : n \in FileNames}

\* what quantize_dynamic may do: raise, or return having written a model,
\* an empty file or nothing
QuantizeLib == {"raise", "data", "empty", "none"}

\* except Exception as e: print, traceback.print_exc(), return False
quantize_except(files, events) ==
    Outcome(files,
            events \o <<PrintException("quantization failed"), PrintException("traceback")>>,
            "False")

quantize_onnx_model(files, input_path, output_path, lib) ==
    LET e1 == <<Ev("print", <<"input model">>, TRUE), Exists(files, input_path)>> IN
    IF ~files[input_path].exists
    THEN Outcome(files, Append(e1, PrintError("model file does not exist")), "False")
    ELSE
    LET e2 == Append(e1, Read(input_path)) IN
    IF lib = "raise"
    THEN quantize_except(files, Append(e2, Call("quantize_dynamic", "Exception")))
    ELSE
    LET written == IF lib = "none" THEN files
                   ELSE [files EXCEPT ![output_path] =
                           File(IF lib = "data" THEN 1 ELSE 0, <<input_path>>)]
        e3 == Append(e2, Call("quantize_dynamic", "ok"))
                \o (IF lib = "none" THEN <<>> ELSE <<Write(output_path)>>)
        \* os.path.getsize(output_path)
        e4 == Append(e3, Ev("read", output_path, written[output_path].exists))
    IN
    IF ~written[output_path].exists
    THEN quantize_except(written, e4)
    \* compression_ratio = size_mb / quantized_size_mb
    ELSE IF written[output_path].size = 0
    THEN quantize_except(written, e4)
    ELSE Outcome(written,
                 Append(e4, Ev("print", <<"quantization succeeded">>, TRUE)),
                 "True")

\* the script is run at most MaxRuns times, one run after the other
MaxRuns == 2

QuantizeLocals ==
    [onnx_models |-> <<>>, i |-> 0, success_count |-> 0, calls |-> <<>>, results |-> <<>>,
     \* history: which run this is, the files before the first run, and what
     \* the run before this one selected and got
     run |-> 1, before |-> <<>>,
     previous |-> [onnx_models |-> <<>>, results |-> <<>>]]

InitQuantize ==
    /\ script = "quantize"
    /\ pc = "main"
    /\ \E directory \in BOOLEAN, present \in SUBSET FileNames :
         /\ ~directory => present = {}
         /\ fs = [path \in QuantizePaths |->
                    IF path = ModelsDir
                    THEN (IF directory THEN File(1, <<>>) ELSE Absent)
                    ELSE IF \E n \in present : path = Join(ModelsDir, n)
                    THEN File(1, <<>>) ELSE Absent]
    /\ log = <<>>
    /\ ret = "none"
    /\ loc = [QuantizeLocals EXCEPT !.before = fs]

\* the names os.listdir returns: the files of the directory
Listing(files) ==
    {n \in FileNames \cup {OutputName(m) : m \in FileNames} :
        files[Join(ModelsDir, n)].exists}

\* filename.endswith('.onnx') and '_int8' not in filename
Selected(filename) == EndsWith(filename, DotOnnx) /\ ~Contains(filename, Int8)

\* the orders in which os.listdir may return the names of a set
Orders(S) ==
    {q \in SeqsUpTo(S, Cardinality(S)) :
        Len(q) = Cardinality(S) /\ \A n \in S : \E i \in 1..Len(q) : q[i] = n}

\* os.listdir(models_dir) of a directory that is not there: FileNotFoundError
QuantizeListMissing ==
    /\ script = "quantize"
    /\ pc = "main"
    /\ ~fs[ModelsDir].exists
    /\ log' = <<Ev("listdir", ModelsDir, FALSE)>>
    /\ pc' = "exit"
    /\ ret' = "uncaught"
    /\ UNCHANGED <<script, fs, loc>>

\* if not onnx_models: print, return
QuantizeListEmpty ==
    /\ script = "quantize"
    /\ pc = "main"
    /\ fs[ModelsDir].exists
    /\ {n \in Listing(fs) : Selected(n)} = {}
    /\ log' = <<Ev("listdir", ModelsDir, TRUE), PrintError("no ONNX model found")>>
    /\ pc' = "exit"
    /\ ret' = "None"
    /\ UNCHANGED <<script, fs, loc>>

QuantizeListFound ==
    /\ script = "quantize"
    /\ pc = "main"
    /\ fs[ModelsDir].exists
    /\ {n \in Listing(fs) : Selected(n)} # {}
    /\ \E order \in Orders({n \in Listing(fs) : Selected(n)}) :
         loc' = [loc EXCEPT !.onnx_models = order, !.i = 1]
    /\ log' = <<Ev("listdir", ModelsDir, TRUE)>>
    /\ pc' = "loop"
    /\ UNCHANGED <<script, fs, ret>>

\* if os.path.exists(output_path): print, continue
QuantizeSkip ==
    /\ script = "quantize"
    /\ pc = "loop"
    /\ loc.i <= Len(loc.onnx_models)
    /\ LET output_path == Join(ModelsDir, OutputName(loc.onnx_models[loc.i])) IN
         /\ fs[output_path].exists
         /\ log' = <<Exists(fs, output_path), Ev("print", <<"skip">>, TRUE)>>
    /\ loc' = [loc EXCEPT !.i = loc.i + 1]
    /\ UNCHANGED <<script, pc, fs, ret>>

\* the same with no test of the output path
QuantizeModelOverwriting ==
    /\ script = "quantize"
    /\ pc = "loop"
    /\ loc.i <= Len(loc.onnx_models)
    /\ LET model_name == loc.onnx_models[loc.i]
           input_path == Join(ModelsDir, model_name)
           output_path == Join(ModelsDir, OutputName(model_name))
       IN  \E lib \in QuantizeLib :
                LET done == quantize_onnx_model(fs, input_path, output_path, lib) IN
                /\ fs' = done.fs
                /\ log' = done.log
                /\ ret' = done.ret
                /\ loc' = [loc EXCEPT
                             !.i = loc.i + 1,
                             !.success_count =
                                 IF done.ret = "True" THEN loc.success_count + 1
                                 ELSE loc.success_count,
                             !.calls = Append(loc.calls,
                                              [input |-> input_path, output |-> output_path]),
                             !.results = Append(loc.results, done.ret)]
    /\ UNCHANGED <<script, pc>>

\* if quantize_onnx_model(input_path, output_path): success_count += 1
QuantizeModel ==
    /\ script = "quantize"
    /\ pc = "loop"
    /\ loc.i <= Len(loc.onnx_models)
    /\ LET model_name == loc.onnx_models[loc.i]
           input_path == Join(ModelsDir, model_name)
           output_path == Join(ModelsDir, OutputName(model_name))
       IN  /\ ~fs[output_path].exists
           /\ \E lib \in QuantizeLib :
                LET done == quantize_onnx_model(fs, input_path, output_path, lib) IN
                /\ fs' = done.fs
                /\ log' = <<Exists(fs, output_path)>> \o done.log
                /\ ret' = done.ret
                /\ loc' = [loc EXCEPT
                             !.i = loc.i + 1,
                             !.success_count =
                                 IF done.ret = "True" THEN loc.success_count + 1
                                 ELSE loc.success_count,
                             !.calls = Append(loc.calls,
                                              [input |-> input_path, output |-> output_path]),
                             !.results = Append(loc.results, done.ret)]
    /\ UNCHANGED <<script, pc>>

\* the summary, and the list of the files now there when success_count > 0
QuantizeSummary ==
    /\ script = "quantize"
    /\ pc = "loop"
    /\ loc.i > Len(loc.onnx_models)
    /\ log' = <<Ev("print", <<"summary">>, TRUE)>>
    /\ pc' = "exit"
    /\ ret' = "None"
    /\ UNCHANGED <<script, fs, loc>>

\* main has returned and the script is run again, on the files as they are
QuantizeRerun ==
    /\ script = "quantize"
    /\ pc = "exit"
    /\ ret = "None"
    /\ loc.run < MaxRuns
    /\ loc' = [QuantizeLocals EXCEPT
                 !.run = loc.run + 1,
                 !.before = loc.before,
                 !.previous = [onnx_models |-> loc.onnx_models, results |-> loc.results]]
    /\ pc' = "main"
    /\ log' = <<>>
    /\ ret' = "none"
    /\ UNCHANGED <<script, fs>>

NextQuantize ==
    \/ QuantizeRerun
    \/ QuantizeListMissing
    \/ QuantizeListEmpty
    \/ QuantizeListFound
    \/ QuantizeSkip
    \/ QuantizeModel
    \/ QuantizeSummary

(***************************************************************************)
(* export_int8_models.py.  The loop of main takes the models one by one;   *)
(* fs holds the files of the model at hand (the checkpoint, the file       *)
(* YOLO.export returns and the target under models/), which no other turn  *)
(* of the loop reads or writes.                                            *)
(***************************************************************************)
models_to_export ==
    << <<"y", "o", "l", "o", "v", "8", "n", ".", "p", "t">>,
       <<"y", "o", "l", "o", "v", "8", "s", ".", "p", "t">>,
       <<"y", "o", "l", "o", "v", "8", "m", ".", "p", "t">>,
       <<"y", "o", "l", "o", "v", "8", "l", ".", "p", "t">>,
       <<"y", "o", "l", "o", "v", "8", "x", ".", "p", "t">>,
       <<"y", "o", "l", "o", "v", "8", "n", "-", "p", "o", "s", "e", ".", "p", "t">>,
       <<"y", "o", "l", "o", "v", "8", "s", "-", "p", "o", "s", "e", ".", "p", "t">>,
       <<"y", "o", "l", "o", "v", "8", "m", "-", "p", "o", "s", "e", ".", "p", "t">>,
       <<"y", "o", "l", "o", "v", "8", "l", "-", "p", "o", "s", "e", ".", "p", "t">>,
       <<"y", "o", "l", "o", "v", "8", "x", "-", "p", "o", "s", "e", ".", "p", "t">> >>

\* os.path.join(output_dir, f"{base_name}_int8.onnx") with
\* base_name = os.path.basename(model_path).replace('.pt', '')
TargetPath(model_path) == Join(ModelsDir, Replace(model_path, DotPt, <<>>) \o Int8DotOnnx)

\* the path YOLO.export returns
ExportedPath(model_path) == Replace(model_path, DotPt, <<>>) \o DotOnnx

Int8Files(model_path, present) ==
    [path \in {model_path, ExportedPath(model_path), TargetPath(model_path)} |->
        IF path = model_path /\ present THEN File(1, <<>>) ELSE Absent]

\* what YOLO(model_path) and model.export may do: the export raises, or
\* returns a path where there is a model, an empty file or nothing
Int8Lib ==
    {lib \in [load : {"ok", "raise"}, export : {"raise", "data", "empty", "none"}] :
        lib.load = "raise" => lib.export = "data"}

\* except Exception as e: print, return False
export_except(files, events) ==
    Outcome(files, Append(events, PrintException("export failed")), "False")

export_int8_model(files, model_path, lib) ==
    LET exported_path == ExportedPath(model_path)
        target_path == TargetPath(model_path)
        e1 == <<Ev("print", <<"load model">>, TRUE), Exists(files, model_path)>>
    IN
    IF ~files[model_path].exists
    THEN Outcome(files, Append(e1, PrintError("model file does not exist")), "False")
    ELSE
    LET e2 == Append(e1, Read(model_path)) IN
    IF lib.load = "raise" THEN export_except(files, Append(e2, Call("YOLO", "Exception")))
    ELSE IF lib.export = "raise"
    THEN export_except(files, e2 \o <<Call("YOLO", "ok"), Call("YOLO.export", "Exception")>>)
    ELSE
    LET exported == IF lib.export = "none" THEN files
                    ELSE [files EXCEPT ![exported_path] =
                            File(IF lib.export = "data" THEN 1 ELSE 0, <<model_path>>)]
        e3 == e2 \o <<Call("YOLO", "ok"), Call("YOLO.export", "ok")>>
                 \o (IF lib.export = "none" THEN <<>> ELSE <<Write(exported_path)>>)
                 \o <<Ev("print", <<"export succeeded">>, TRUE),
                      Exists(exported, exported_path)>>
    IN
    IF exported[exported_path].exists
    THEN \* shutil.move(exported_path, target_path), os.path.getsize(target_path)
         Outcome([exported EXCEPT ![target_path] = exported[exported_path],
                                  ![exported_path] = Absent],
                 e3 \o <<Write(target_path), Read(target_path)>>,
                 "True")
    ELSE Outcome(exported, e3, "True")

Int8Locals == [i |-> 1, success_count |-> 0, total_count |-> 0, exported |-> FALSE]

InitInt8 ==
    /\ script = "int8"
    /\ pc = "loop"
    /\ fs = Int8Files(models_to_export[1], FALSE)
    /\ log = <<>>
    /\ ret = "none"
    /\ loc = Int8Locals

\* for model_path, description in models_to_export: the file is not there
Int8Skip ==
    /\ script = "int8"
    /\ pc = "loop"
    /\ loc.i <= Len(models_to_export)
    /\ LET model_path == models_to_export[loc.i]
           files == Int8Files(model_path, FALSE)
       IN  /\ fs' = files
           /\ log' = <<Exists(files, model_path), Ev("print", <<"skip">>, TRUE)>>
    /\ loc' = [loc EXCEPT !.i = loc.i + 1, !.exported = FALSE]
    /\ ret' = "none"
    /\ UNCHANGED <<script, pc>>

\* ... the file is there: total_count += 1, export_int8_model(model_path)
Int8Export ==
    /\ script = "int8"
    /\ pc = "loop"
    /\ loc.i <= Len(models_to_export)
    /\ \E lib \in Int8Lib :
         LET model_path == models_to_export[loc.i]
             files == Int8Files(model_path, TRUE)
             done == export_int8_model(files, model_path, lib)
         IN  /\ fs' = done.fs
             /\ log' = <<Exists(files, model_path)>> \o done.log
             /\ ret' = done.ret
             /\ loc' = [loc EXCEPT
                          !.i = loc.i + 1,
                          !.exported = TRUE,
                          !.total_count = loc.total_count + 1,
                          !.success_count =
                              IF done.ret = "True" THEN loc.success_count + 1
                              ELSE loc.success_count]
    /\ UNCHANGED <<script, pc>>

Int8Summary ==
    /\ script = "int8"
    /\ pc = "loop"
    /\ loc.i > Len(models_to_export)
    /\ log' = <<Ev("print", <<"summary">>, TRUE)>>
    /\ pc' = "exit"
    /\ ret' = "None"
    /\ UNCHANGED <<script, fs, loc>>

NextInt8 == Int8Skip \/ Int8Export \/ Int8Summary

(***************************************************************************)
(* export_osnet_official.py: export_osnet_to_onnx, statement by statement. *)
(* Nothing but the check of the exported model is inside a try.            *)
(***************************************************************************)
PthPath == <<"models/osnet_ain_x1_0_imagenet.pth">>
OsnetOutput == <<"models/osnet_ain_x1_0.onnx">>

InitOsnet ==
    /\ script = "osnet"
    /\ pc = "build_model"
    /\ \E pth \in {Absent, File(1, <<>>)} :
         fs = [path \in {PthPath, OsnetOutput} |-> IF path = PthPath THEN pth ELSE Absent]
    /\ log = <<>>
    /\ ret = "none"
    /\ loc = [checked |-> "none"]

\* a library call that raises: nothing catches it
Uncaught(name) ==
    /\ log' = Append(log, Call(name, "Exception"))
    /\ pc' = "exit"
    /\ ret' = "uncaught"
    /\ UNCHANGED <<script, fs, loc>>

\* model = torchreid.models.build_model(...)
OsnetBuildModel ==
    /\ script = "osnet"
    /\ pc = "build_model"
    /\ \/ Uncaught("torchreid.models.build_model")
       \/ /\ log' = Append(log, Call("torchreid.models.build_model", "ok"))
          /\ pc' = "torch_load"
          /\ UNCHANGED <<script, fs, ret, loc>>

\* checkpoint = torch.load('models/osnet_ain_x1_0_imagenet.pth', ...):
\* FileNotFoundError when the file is not there
OsnetTorchLoad ==
    /\ script = "osnet"
    /\ pc = "torch_load"
    /\ \/ /\ log' = log \o <<Ev("read", PthPath, fs[PthPath].exists), Call("torch.load", "Exception")>>
          /\ pc' = "exit"
          /\ ret' = "uncaught"
          /\ UNCHANGED <<script, fs, loc>>
       \/ /\ fs[PthPath].exists
          /\ log' = log \o <<Read(PthPath), Call("torch.load", "ok")>>
          /\ pc' = "forward"
          /\ UNCHANGED <<script, fs, ret, loc>>

\* model.load_state_dict(...), model.eval(), output = model(dummy_input)
OsnetForward ==
    /\ script = "osnet"
    /\ pc = "forward"
    /\ \/ Uncaught("model.load_state_dict")
       \/ /\ log' = Append(log, Call("model.load_state_dict", "ok"))
          /\ pc' = "export"
          /\ UNCHANGED <<script, fs, ret, loc>>

\* torch.onnx.export(model, dummy_input, output_path, ...)
OsnetExport ==
    /\ script = "osnet"
    /\ pc = "export"
    /\ \/ Uncaught("torch.onnx.export")
       \/ \E size \in {0, 1} :
            /\ fs' = [fs EXCEPT ![OsnetOutput] = File(size, <<>>)]
            /\ log' = log \o <<Call("torch.onnx.export", "ok"), Write(OsnetOutput)>>
            /\ pc' = "onnx_load"
            /\ UNCHANGED <<script, ret, loc>>

\* onnx_model = onnx.load(output_path)
OsnetOnnxLoad ==
    /\ script = "osnet"
    /\ pc = "onnx_load"
    /\ \/ /\ log' = log \o <<Read(OsnetOutput), Call("onnx.load", "Exception")>>
          /\ pc' = "exit"
          /\ ret' = "uncaught"
          /\ UNCHANGED <<script, fs, loc>>
       \/ /\ log' = log \o <<Read(OsnetOutput), Call("onnx.load", "ok")>>
          /\ pc' = "check_model"
          /\ UNCHANGED <<script, fs, ret, loc>>

\* try: onnx.checker.check_model(onnx_model) except Exception: print a warning
OsnetCheckModel ==
    /\ script = "osnet"
    /\ pc = "check_model"
    /\ \/ /\ log' = log \o <<Call("onnx.checker.check_model", "Exception"),
                             PrintException("ONNX model check failed")>>
          /\ loc' = [loc EXCEPT !.checked = "rejected"]
       \/ /\ log' = Append(log, Call("onnx.checker.check_model", "ok"))
          /\ loc' = [loc EXCEPT !.checked = "accepted"]
    /\ pc' = "inference"
    /\ UNCHANGED <<script, fs, ret>>

\* session = ort.InferenceSession(output_path, ...); session.run(...); the
\* comparison with the PyTorch output and the closing messages
OsnetInference ==
    /\ script = "osnet"
    /\ pc = "inference"
    /\ \/ /\ log' = log \o <<Read(OsnetOutput), Call("ort.InferenceSession", "Exception")>>
          /\ pc' = "exit"
          /\ ret' = "uncaught"
       \/ /\ log' = log \o <<Read(OsnetOutput), Call("ort.InferenceSession", "ok"),
                             Ev("print", <<"export complete">>, TRUE)>>
          /\ pc' = "exit"
          /\ ret' = "None"
    /\ UNCHANGED <<script, fs, loc>>

NextOsnet ==
    \/ OsnetBuildModel
    \/ OsnetTorchLoad
    \/ OsnetForward
    \/ OsnetExport
    \/ OsnetOnnxLoad
    \/ OsnetCheckModel
    \/ OsnetInference

(***************************************************************************)
(* The five scripts: a run is one script, from its start to its end.       *)
(***************************************************************************)
Init == InitFastest \/ InitDarknet \/ InitQuantize \/ InitInt8 \/ InitOsnet

Next == NextFastest \/ NextDarknet \/ NextQuantize \/ NextInt8 \/ NextOsnet

Spec == Init /\ [][Next]_vars

(***************************************************************************)
(* What a config file says, read off its lines without running the parser. *)
(***************************************************************************)
LineKind(raw) ==
    LET l == Strip(raw) IN
    IF l = <<>> THEN "blank"
    ELSE IF l[1] = "#" THEN "comment"
    ELSE IF l[1] = "[" /\ l[Len(l)] = "]" THEN "header"
    ELSE IF Cardinality({i \in 1..Len(l) : l[i] = "="}) = 1 THEN "keyvalue"
    ELSE "other"

HeaderName(raw) == LET l == Strip(raw) IN Strip(SubSeq(l, 2, Len(l) - 1))

EqualsAt(l) == CHOOSE i \in 1..Len(l) : l[i] = "="
LineKey(raw) == LET l == Strip(raw) IN Strip(SubSeq(l, 1, EqualsAt(l) - 1))
LineValue(raw) == LET l == Strip(raw) IN Strip(SubSeq(l, EqualsAt(l) + 1, Len(l)))

HeaderLines(f) == {i \in 1..Len(f) : LineKind(f[i]) = "header"}
KeyValueLines(f) == {i \in 1..Len(f) : LineKind(f[i]) = "keyvalue"}

\* the line number of the n-th header
NthHeader(f, n) ==
    CHOOSE i \in HeaderLines(f) : Cardinality({j \in HeaderLines(f) : j <= i}) = n

\* the key=value lines between header line h and the next header
LinesOfBlock(f, h) ==
    {i \in KeyValueLines(f) : i > h /\ \A j \in HeaderLines(f) : j > h => i < j}

Pairs(f, lines) == {<<LineKey(f[i]), LineValue(f[i])>> : i \in lines}

\* the key/value pairs a mapping holds besides 'type'
PairsOfBlock(block) == {<<k, block[k]>> : k \in (DOMAIN block) \ {K_type}}

\* made of blank, comment, header and key=value lines only
InClaimedClass(f) == \A i \in 1..Len(f) : LineKind(f[i]) # "other"

\* one mapping per header, in order, named after it, holding its lines' pairs
OneBlockPerHeader(f, blocks) ==
    /\ Len(blocks) = Cardinality(HeaderLines(f))
    /\ \A n \in 1..Len(blocks) :
         /\ K_type \in DOMAIN blocks[n]
         /\ blocks[n][K_type] = HeaderName(f[NthHeader(f, n)])
         /\ PairsOfBlock(blocks[n]) = Pairs(f, LinesOfBlock(f, NthHeader(f, n)))

\* no key=value line comes before the first header
HeaderFirst(f) ==
    \A i \in KeyValueLines(f) : \E h \in HeaderLines(f) : h < i

\* no block has a line whose key is 'type', and no block repeats a key
PlainKeys(f) ==
    /\ \A i \in KeyValueLines(f) : LineKey(f[i]) # K_type
    /\ \A i, j \in KeyValueLines(f) :
         (i # j /\ LineKey(f[i]) = LineKey(f[j]))
            => \E h \in HeaderLines(f) : (i < h /\ h < j) \/ (j < h /\ h < i)

ParseCfgDone == script = "parse_cfg" /\ pc = "done"

\* C7 as claimed: for every config file made of blank, comment, header and
\* key=value lines, parse_cfg returns exactly one mapping per header line, in
\* file order, typed by the header's name and holding exactly the key/value
\* pairs of the lines up to the next header.
C7_AsClaimed ==
    (ParseCfgDone /\ InClaimedClass(loc.cfg_file))
        => (~loc.raised /\ OneBlockPerHeader(loc.cfg_file, loc.blocks))

\* C7, amended: the same, for the config files whose first line that is
\* neither blank nor a comment is a header, and in which no line's key is
\* 'type' and no block repeats a key.
C7_ParseCfgBlocks ==
    (ParseCfgDone /\ InClaimedClass(loc.cfg_file)
       /\ HeaderFirst(loc.cfg_file) /\ PlainKeys(loc.cfg_file))
        => (~loc.raised /\ OneBlockPerHeader(loc.cfg_file, loc.blocks))

\* a parsed file with a blank or comment line, two headers and a key=value
\* line in a block
C7_Witness ==
    /\ ParseCfgDone
    /\ InClaimedClass(loc.cfg_file)
    /\ HeaderFirst(loc.cfg_file) /\ PlainKeys(loc.cfg_file)
    /\ Cardinality(HeaderLines(loc.cfg_file)) >= 2
    /\ KeyValueLines(loc.cfg_file) # {}
    /\ Len(loc.blocks) = 2

LoadWeightsDone == script = "load_weights" /\ pc = "done"

\* C8: load_weights takes the first five words of the file as the header and
\* returns the words after them in file order: n - 5 words of a file of
\* n >= 5 words, none of a file of at most five; the header's values appear
\* nowhere in what decides the result.
C8_LoadWeightsTail ==
    LoadWeightsDone =>
        LET n == Len(loc.weights_file) IN
        /\ Len(loc.weights) = (IF n >= 5 THEN n - 5 ELSE 0)
        /\ \A i \in 1..Len(loc.weights) : loc.weights[i] = loc.weights_file[i + 5]

\* a seven-word file read: two weights returned, unlike the header's words
C8_Witness ==
    /\ LoadWeightsDone
    /\ Len(loc.weights_file) = 7
    /\ loc.weights = <<loc.weights_file[6], loc.weights_file[7]>>
    /\ loc.weights_file[1] # loc.weights_file[6]

BuildDone == script = "build" /\ pc = "done"

\* the layer stack of the placeholder: conv 3->64, batch-norm, ReLU,
\* max-pool, conv 64->255
IsPlaceholderStack(model) ==
    /\ Len(model.backbone) = 4
    /\ model.backbone[1].layer = "Conv2d"
    /\ SubSeq(model.backbone[1].args, 1, 2) = <<3, 64>>
    /\ model.backbone[2].layer = "BatchNorm2d"
    /\ model.backbone[3].layer = "ReLU"
    /\ model.backbone[4].layer = "MaxPool2d"
    /\ model.head.layer = "Conv2d"
    /\ SubSeq(model.head.args, 1, 2) = <<64, 255>>

\* after a change of the weights, of a block that is not the first or of a
\* field of the first block that is not 'width', the outcome is the same
SameAsBefore == (BuildDone /\ loc.has_prev) => loc.out = loc.prev_out

\* the first block's width is absent or a decimal integer
WidthIsInteger(blocks) ==
    K_width \in DOMAIN blocks[1] =>
        LET w == blocks[1][K_width] IN
        /\ w # <<>>
        /\ \A i \in 1..Len(w) : w[i] \in Digits

\* C9 as claimed: build_model_from_cfg returns the hard-coded stack for every
\* non-empty block list, nothing but the first block's 'width' affects the
\* result, and the export uses a 1x3x320x320 input.
C9_AsClaimed ==
    /\ SameAsBefore
    /\ (BuildDone /\ loc.blocks # <<>>) =>
          (/\ ~loc.out.raised
           /\ IsPlaceholderStack(loc.out.model)
           /\ loc.out.dummy_input = <<1, 3, 320, 320>>)

\* C9, amended: the same for every non-empty block list whose first block has
\* no 'width' or an integer one (with any other width the build raises
\* ValueError, whatever the other blocks, fields and weights are).
C9_PlaceholderModel ==
    /\ SameAsBefore
    /\ (BuildDone /\ loc.blocks # <<>> /\ WidthIsInteger(loc.blocks)) =>
          (/\ ~loc.out.raised
           /\ IsPlaceholderStack(loc.out.model)
           /\ loc.out.dummy_input = <<1, 3, 320, 320>>)
    /\ (BuildDone /\ loc.blocks # <<>> /\ ~WidthIsInteger(loc.blocks)) =>
          loc.out.raised

\* a model built for width 416 from two blocks, after a change of the input
\* that left the width alone, and exported with the 320 input
C9_Witness ==
    /\ BuildDone
    /\ loc.has_prev
    /\ Len(loc.blocks) = 2
    /\ K_filters \in DOMAIN loc.blocks[1]
    /\ loc.weights # <<>>
    /\ ~loc.out.raised
    /\ loc.out.model.input_size = 416
    /\ loc.out.dummy_input = <<1, 3, 320, 320>>

(***************************************************************************)
(* The claims about the scripts.                                           *)
(***************************************************************************)
\* convert has just returned: from the menu, or in a turn of convert_all
AfterConvert ==
    /\ script = "fastest"
    /\ loc.calls # <<>>
    /\ pc = "convert_all" \/ (pc = "menu" /\ loc.command = "convert")

LastKey == loc.calls[Len(loc.calls)]

\* convert_yolo_fastest is past its check of the files of a valid choice
DarknetPastCheck ==
    /\ script = "darknet"
    /\ pc \in {"tool", "run", "exit"}
    /\ IsDarknetKey(loc.choice)

\* an error was printed, and nothing was done but printing, prompting and
\* testing for existence
ErrorOnly(events) ==
    /\ \E i \in 1..Len(events) : events[i].op = "print_error"
    /\ \A i \in 1..Len(events) :
         events[i].op \in {"print", "input", "exists", "print_error"}

\* C1: in both Darknet scripts, for a valid model choice whose config or
\* weights file does not exist, an error is printed and nothing else is
\* done: nothing is parsed, loaded, cloned, run, exported or written, and
\* convert returns False.
C1_MissingInputStops ==
    /\ (AfterConvert
          /\ (~fs[CfgPath(LastKey)].exists \/ ~fs[WeightsPath(LastKey)].exists))
        => (/\ ret = "False"
            /\ ErrorOnly(log)
            /\ ~fs[OutputPath(LastKey)].exists)
    /\ (DarknetPastCheck
          /\ (~fs[CfgPath(loc.choice)].exists \/ ~fs[WeightsPath(loc.choice)].exists))
        => (/\ pc = "exit"
            /\ ret = "None"
            /\ ErrorOnly(log)
            /\ ~fs[OutputPath(loc.choice)].exists)

\* convert has returned False for a model whose config is there and whose
\* weights are not
C1_Witness ==
    /\ AfterConvert
    /\ fs[CfgPath(LastKey)].exists
    /\ ~fs[WeightsPath(LastKey)].exists
    /\ ret = "False"

NonEmptyFile(path) == fs[path].exists /\ fs[path].size > 0

\* C2 as claimed: whenever convert, export_int8_model or quantize_onnx_model
\* has returned True, a file of non-zero size is at the declared output path.
C2_AsClaimed ==
    /\ (AfterConvert /\ ret = "True") => NonEmptyFile(OutputPath(LastKey))
    /\ (script = "int8" /\ pc = "loop" /\ loc.exported /\ ret = "True")
        => NonEmptyFile(TargetPath(models_to_export[loc.i - 1]))
    /\ (script = "quantize" /\ pc = "loop" /\ loc.calls # <<>> /\ ret = "True")
        => NonEmptyFile(loc.calls[Len(loc.calls)].output)

FailedCalls(events) ==
    {i \in 1..Len(events) : events[i].op = "call" /\ ~events[i].ok}

PrintedAfter(events, i) ==
    \E j \in (i + 1)..Len(events) : events[j].op = "print_exception"

\* no library call is made twice in one invocation
NotRetried(events) ==
    \A i, j \in 1..Len(events) :
        (i < j /\ events[i].op = "call" /\ events[j].op = "call")
            => events[i].arg[1] # events[j].arg[1]

\* C3 as claimed: in every script, an exception raised by a library call is
\* caught and printed, none leaves the script uncaught, and the failed call
\* is not retried.
C3_AsClaimed ==
    /\ NotRetried(log)
    /\ \A i \in FailedCalls(log) : PrintedAfter(log, i) /\ ret # "uncaught"

\* C3, amended: that holds in convert_fastest_to_onnx.py,
\* export_int8_models.py and quantize_onnx_int8.py, where the function then
\* returns False.  convert_fastest_darknet_to_onnx.py catches
\* CalledProcessError only (a failed clone then exits with status 1) and any
\* other exception of subprocess.run leaves the script; in
\* export_osnet_official.py only the exception of onnx.checker.check_model is
\* caught and every other one leaves the script.  No failed call is retried.
C3_CaughtWhereHandled ==
    /\ NotRetried(log)
    /\ \A i \in FailedCalls(log) :
         IF script \in {"fastest", "int8", "quantize"}
         THEN PrintedAfter(log, i) /\ ret = "False"
         ELSE IF script = "darknet"
         THEN IF log[i].arg[2] = "CalledProcessError"
              THEN /\ PrintedAfter(log, i)
                   /\ ret = (IF log[i].arg[1] = "git clone" THEN "exit 1" ELSE "None")
              ELSE ret = "uncaught" /\ i = Len(log)
         ELSE IF log[i].arg[1] = "onnx.checker.check_model"
              THEN log[i + 1].op = "print_exception"
              ELSE ret = "uncaught" /\ i = Len(log)

\* convert has caught the exception of torch.onnx.export and returned False
C3_Witness ==
    /\ AfterConvert
    /\ ret = "False"
    /\ \E i \in FailedCalls(log) :
         log[i].arg[1] = "torch.onnx.export" /\ PrintedAfter(log, i)

\* the paths of the inputs: the config and weights files, the checkpoints,
\* the models/ directory and the ONNX files in it that are not quantized
IsInput(path) ==
    \/ path[1] \in {"cfg", "weights"}
    \/ path \in {PthPath, ModelsDir}
    \/ EndsWith(path, DotPt)
    \/ StartsWith(path, ModelsDir) /\ EndsWith(path, DotOnnx) /\ ~Contains(path, Int8)

\* the event is a read of an input file or directory
ReadsInput(e) ==
    /\ e.op \in {"read", "parse_cfg", "load_weights", "listdir"}
    /\ IsInput(e.arg)

\* the path read by event i was found to exist earlier in the invocation
CheckedBefore(events, i) ==
    \E j \in 1..(i - 1) :
        events[j].op = "exists" /\ events[j].arg = events[i].arg /\ events[j].ok

\* an input found missing is answered by a message, and never read
MissingReported(events) ==
    \A j \in 1..Len(events) :
        (events[j].op = "exists" /\ ~events[j].ok /\ IsInput(events[j].arg))
        => (/\ j < Len(events)
            /\ events[j + 1].op \in {"print_error", "print"}
            /\ \A i \in 1..Len(events) :
                 ReadsInput(events[i]) => events[i].arg # events[j].arg)

\* C4 as claimed: in every script each input file or directory is tested for
\* existence before it is read, and a missing one is answered by a message
\* instead of the read.
C4_AsClaimed ==
    /\ MissingReported(log)
    /\ \A i \in 1..Len(log) : ReadsInput(log[i]) => CheckedBefore(log, i)

\* C4, amended: that holds of the config and weights files, the .pt
\* checkpoints and the ONNX files handed to quantize_onnx_model; the
\* checkpoint models/osnet_ain_x1_0_imagenet.pth and the models/ directory of
\* quantize_onnx_int8.py are read without any test of their existence.
C4_CheckedInputs ==
    /\ MissingReported(log)
    /\ \A i \in 1..Len(log) :
         ReadsInput(log[i]) =>
            IF log[i].arg \in {PthPath, ModelsDir}
            THEN \A j \in 1..(i - 1) :
                    ~(log[j].op = "exists" /\ log[j].arg = log[i].arg)
            ELSE CheckedBefore(log, i)

\* export_int8_model has read a checkpoint it had found to exist
C4_Witness ==
    /\ script = "int8"
    /\ ret = "True"
    /\ \E i \in 1..Len(log) :
         /\ log[i].op = "read"
         /\ ReadsInput(log[i])
         /\ CheckedBefore(log, i)

\* a step that failed: an error message, or a call or a parse that raised
FailureAt(events, i) ==
    \/ events[i].op = "print_error"
    \/ /\ events[i].op \in {"call", "parse_cfg", "build_model_from_cfg"}
       /\ ~events[i].ok

\* after a failed step the invocation does nothing but report it
StopsAtFailure(events) ==
    \A i \in 1..Len(events) :
        FailureAt(events, i) =>
            \A j \in (i + 1)..Len(events) :
                events[j].op \in {"print_error", "print_exception"}

\* C5 as claimed: once any step has failed, no later conversion,
\* quantization, verification or menu step is executed in that run.
C5_AsClaimed ==
    /\ StopsAtFailure(log)
    /\ script = "fastest" =>
         \A j \in 1..(Len(loc.returned) - 1) : loc.returned[j] = "True"
    /\ script = "quantize" =>
         \A j \in 1..(Len(loc.results) - 1) : loc.results[j] = "True"
    /\ (script = "int8" /\ loc.exported) =>
         loc.total_count - loc.success_count <= (IF ret = "False" THEN 1 ELSE 0)

\* C5, amended: a failed step ends the invocation it happens in (convert,
\* quantize_onnx_model, export_int8_model, convert_yolo_fastest), which then
\* only reports it; the run goes on: convert_all and the loops of
\* quantize_onnx_int8.py and export_int8_models.py take the next model, the
\* menu is shown again, and export_osnet_to_onnx goes on to its inference test
\* after the checker has rejected the model; any other failure there ends it.
C5_FailureEndsTheCall ==
    IF script = "osnet"
    THEN \A i \in 1..Len(log) :
            (FailureAt(log, i) /\ log[i].arg[1] # "onnx.checker.check_model")
                => i = Len(log)
    ELSE StopsAtFailure(log)

\* convert_all has called convert for the second model after the first failed
C5_Witness ==
    /\ script = "fastest"
    /\ pc = "convert_all"
    /\ Len(loc.returned) = 2
    /\ loc.returned[1] = "False"
    /\ \E i \in 1..Len(log) : FailureAt(log, i)

\* C6 as claimed: run with --auto, the script attempts a conversion for each
\* of its models and never calls input().
C6_AsClaimed ==
    (script = "darknet" /\ loc.auto /\ pc = "exit") =>
        /\ \A i \in 1..Len(log) : log[i].op # "input"
        /\ Cardinality({i \in 1..Len(log) :
                           log[i].op = "call" /\ log[i].arg[1] = "python export_onnx.py"})
             = Len(DarknetKeys)

\* C10: convert_all calls convert once for each of the three models, in the
\* order of the keys '1', '2', '3', going on after a failed model, and
\* returns True exactly when each of the three calls returned True.
C10_ConvertAll ==
    /\ (script = "fastest" /\ pc = "convert_all")
        => loc.calls = SubSeq(ModelKeys, 1, loc.i - 1)
    /\ (script = "fastest" /\ pc = "menu" /\ loc.command = "convert_all")
        => (/\ loc.calls = ModelKeys
            /\ Len(loc.returned) = Len(ModelKeys)
            /\ (ret = "True")
                 <=> (\A j \in 1..Len(ModelKeys) : loc.returned[j] = "True"))

\* convert_all has returned False after the first model failed and the
\* second succeeded
C10_Witness ==
    /\ script = "fastest"
    /\ pc = "menu"
    /\ loc.command = "convert_all"
    /\ Len(loc.returned) = Len(ModelKeys)
    /\ loc.returned[1] = "False"
    /\ loc.returned[2] = "True"
    /\ ret = "False"

\* the file name of a path under models/
NameOf(path) == SubSeq(path, Len(ModelsDir) + 2, Len(path))

\* this step calls quantize_onnx_model
QuantizeCalled ==
    /\ script = "quantize"
    /\ Len(loc'.calls) > Len(loc.calls)

\* every result of the run was True
FullySuccessful(run) == \A j \in 1..Len(run.results) : run.results[j] = "True"

\* every file there before the first run is as it was
FilesKept ==
    \A path \in DOMAIN fs : loc.before[path].exists => fs[path] = loc.before[path]

\* C11: quantize_onnx_int8.main calls quantize_onnx_model only for a file
\* whose name ends in '.onnx' and does not contain '_int8', and only with an
\* output path that does not exist when the model is reached; every file
\* that was under models/ before the run is unchanged, and a run right after
\* a fully successful run calls quantize_onnx_model not once.
C11_NoOverwrite ==
    /\ [][QuantizeCalled =>
            LET call == loc'.calls[Len(loc'.calls)] IN
            /\ EndsWith(NameOf(call.input), DotOnnx)
            /\ ~Contains(NameOf(call.input), Int8)
            /\ ~fs[call.output].exists]_vars
    /\ [](script = "quantize" => FilesKept)
    /\ []((script = "quantize" /\ loc.run > 1 /\ FullySuccessful(loc.previous))
            => loc.calls = <<>>)

\* a second run has ended with no call, after a first run that quantized a
\* model and left a file that was there before as it was
C11_Witness ==
    /\ script = "quantize"
    /\ pc = "exit"
    /\ loc.run = 2
    /\ loc.previous.results # <<>>
    /\ FullySuccessful(loc.previous)
    /\ loc.calls = <<>>
    /\ \E path \in DOMAIN fs : path # ModelsDir /\ loc.before[path].exists
    /\ \E path \in DOMAIN fs : ~loc.before[path].exists /\ fs[path].exists

\* the answer this step has read from standard input, when it has read one
AnswerRead(events) ==
    \E i \in 1..Len(events) : events[i].op = "input" /\ events[i].ok

Answer(events) ==
    events[CHOOSE i \in 1..Len(events) : events[i].op = "input"].arg

\* one step of convert_fastest_to_onnx.main; endOfInput: the end of standard
\* input counts as an end of the menu loop
MainStep(endOfInput) ==
    /\ pc = "confirm" =>
         /\ pc' \in {"menu", "exit"}
         /\ loc'.calls = <<>>
         /\ fs' = fs
         /\ pc' = "menu" <=>
              (AnswerRead(log') /\ Lower(Strip(Answer(log'))) = <<"y">>)
    /\ pc = "menu" =>
         /\ log'[1].op = "show_menu"
         /\ loc'.calls = <<>>
         /\ fs' = fs
         /\ IF ~AnswerRead(log')
            THEN endOfInput /\ pc' = "exit" /\ ret' = "uncaught"
            ELSE LET choice == Strip(Answer(log')) IN
                 IF choice = <<"0">> THEN pc' = "exit"
                 ELSE IF choice \in {<<"1">>, <<"2">>, <<"3">>}
                 THEN pc' = "convert" /\ loc'.choice = choice
                 ELSE IF choice = <<"4">>
                 THEN pc' = "convert_all" /\ loc'.i = 1
                 ELSE pc' = "menu"
    /\ pc = "convert" => (pc' = "menu" /\ loc'.calls = <<loc.choice>>)
    /\ pc = "convert_all" =>
         /\ pc' \in {"convert_all", "menu"}
         /\ pc' = "menu" => loc'.calls = loc.calls
    /\ pc # "exit"

\* C12 as claimed: in convert_fastest_to_onnx.main no conversion happens
\* unless the first answer, trimmed and lower-cased, is 'y'; then the menu is
\* shown before every choice, '1', '2' or '3' makes one convert of that
\* model, '4' makes convert_all, any other choice but '0' makes no
\* conversion, and the loop ends only when '0' is read.
C12_AsClaimed == [][script = "fastest" => MainStep(FALSE)]_vars

\* C12, amended: the same, but the loop ends when '0' is read or when
\* standard input is at its end: input() then raises EOFError, which leaves
\* the script.
C12_MenuLoop == [][script = "fastest" => MainStep(TRUE)]_vars

\* the choice '2' has made one convert of the second model and the script is
\* back at the menu
C12_Witness ==
    /\ script = "fastest"
    /\ pc = "menu"
    /\ loc.command = "convert"
    /\ loc.choice = <<"2">>
    /\ loc.calls = << <<"2">> >>

\* the output paths of the calls of this run that returned True
OutputsProduced ==
    {loc.calls[k].output : k \in {j \in 1..Len(loc.calls) : loc.results[j] = "True"}}

\* C13 as claimed: in quantize_onnx_int8.main two distinct selected file
\* names never get the same '<base>_int8.onnx' output name, no output name is
\* the name of a selected input, and the success count reported at the end is
\* the number of distinct output files the run has produced.
C13_AsClaimed ==
    script = "quantize" =>
        /\ \A i, j \in 1..Len(loc.onnx_models) :
             /\ i # j => OutputName(loc.onnx_models[i]) # OutputName(loc.onnx_models[j])
             /\ OutputName(loc.onnx_models[i]) # loc.onnx_models[j]
        /\ (pc = "exit" /\ ret = "None")
             => loc.success_count = Cardinality(OutputsProduced)

====
